---------------------------- MODULE Spec2Model ----------------------------
(***************************************************************************)
(* cargo-kbuild: the `build` pipeline of src/cargo-kbuild/src/main.rs.     *)
(*                                                                         *)
(* Text (package names, capability names, dependency specs, config lines)  *)
(* is a sequence of one-character strings, so that prefix tests, splitting *)
(* and trimming are computed rather than assumed.                          *)
(***************************************************************************)
EXTENDS Integers, Sequences, FiniteSets, TLC

(***************************************************************************)
(* Bounds of the model.                                                    *)
(***************************************************************************)
\* total number of dependency specs over all manifests of a workspace
MaxDeps == 2
\* number of lines of a config file
MaxLines == 2

(***************************************************************************)
(* Text helpers (Rust str methods used by the tool).                       *)
(***************************************************************************)
Range(s) == {s[i] : i \in 1..Len(s)}

\* the permutations of a finite set, as sequences: the orders in which a
\* HashMap / HashSet may be iterated
Perms(S) ==
    {p \in [1..Cardinality(S) -> S] : \A i, j \in 1..Cardinality(S) : p[i] = p[j] => i = j}

\* characters in ASCII order (those that occur in the model's texts)
Ascii ==
    <<"\t", " ", "\"", "#", "+", "-", "/",
      "0", "1", "2", "3", "4", "5", "6", "7", "8", "9", "=",
      "A", "B", "C", "D", "F", "G", "I", "N", "O", "X", "_",
      "a", "b", "d", "g", "h", "i", "l", "m", "n", "o", "s", "t", "x", "y">>

CharCode(c) == CHOOSE i \in 1..Len(Ascii) : Ascii[i] = c

\* str::cmp: lexicographic order of the bytes
RECURSIVE StrLess(_, _)
StrLess(s, t) ==
    IF t = <<>> THEN FALSE
    ELSE IF s = <<>> THEN TRUE
    ELSE IF Head(s) = Head(t) THEN StrLess(Tail(s), Tail(t))
    ELSE CharCode(Head(s)) < CharCode(Head(t))

\* str::starts_with
StartsWith(s, p) == Len(s) >= Len(p) /\ SubSeq(s, 1, Len(p)) = p

\* str::ends_with
EndsWith(s, p) == Len(s) >= Len(p) /\ SubSeq(s, Len(s) - Len(p) + 1, Len(s)) = p

\* char::is_whitespace, for the characters of the model
IsWhitespace(c) == c \in {" ", "\t"}

\* str::trim
RECURSIVE TrimStart(_)
TrimStart(s) ==
    IF s # <<>> /\ IsWhitespace(Head(s)) THEN TrimStart(Tail(s)) ELSE s

RECURSIVE TrimEnd(_)
TrimEnd(s) ==
    IF s # <<>> /\ IsWhitespace(s[Len(s)]) THEN TrimEnd(SubSeq(s, 1, Len(s) - 1)) ELSE s

Trim(s) == TrimEnd(TrimStart(s))

\* str::split_once(c): the text before and after the FIRST c, or None
None == [none |-> TRUE]

\* a file that does not exist, a process never started, an argument not given
Absent == [absent |-> TRUE]

SplitOnce(s, c) ==
    IF c \notin Range(s) THEN None
    ELSE LET i == CHOOSE k \in 1..Len(s) : s[k] = c /\ \A j \in 1..(k - 1) : s[j] # c
         IN  [before |-> SubSeq(s, 1, i - 1), after |-> SubSeq(s, i + 1, Len(s))]

(***************************************************************************)
(* Integer parsing: str::parse::<i32>() and str::parse::<usize>().         *)
(* Numbers are kept as decimal digit strings, so that values beyond the    *)
(* 32-bit and 64-bit ranges are compared exactly.                          *)
(***************************************************************************)
Digits == {"0", "1", "2", "3", "4", "5", "6", "7", "8", "9"}

IsDigits(s) == s # <<>> /\ \A i \in 1..Len(s) : s[i] \in Digits

\* digits without leading zeros (what formatting the parsed number prints)
RECURSIVE Canon(_)
Canon(d) == IF Len(d) > 1 /\ Head(d) = "0" THEN Canon(Tail(d)) ELSE d

\* a <= b for canonical digit strings
DecLeq(a, b) ==
    \/ Len(a) < Len(b)
    \/ Len(a) = Len(b) /\ (a = b \/ StrLess(a, b))

\* i32::MAX = 2147483647 and -i32::MIN = 2147483648
I32MaxDigits == <<"2", "1", "4", "7", "4", "8", "3", "6", "4", "7">>
I32MinDigits == <<"2", "1", "4", "7", "4", "8", "3", "6", "4", "8">>
\* usize::MAX = 18446744073709551615 (64-bit target)
UsizeMaxDigits ==
    <<"1", "8", "4", "4", "6", "7", "4", "4", "0", "7",
      "3", "7", "0", "9", "5", "5", "1", "6", "1", "5">>

\* value.parse::<i32>(): an optional sign, then digits, within the i32 range.
\* Ok carries the text that `{}` prints for the parsed number.
ParseI32(v) ==
    IF v = <<>> THEN None
    ELSE IF Head(v) = "-"
    THEN IF IsDigits(Tail(v)) /\ DecLeq(Canon(Tail(v)), I32MinDigits)
         THEN [ok |-> IF Canon(Tail(v)) = <<"0">> THEN <<"0">>
                      ELSE <<"-">> \o Canon(Tail(v))]
         ELSE None
    ELSE LET d == IF Head(v) = "+" THEN Tail(v) ELSE v
         IN  IF IsDigits(d) /\ DecLeq(Canon(d), I32MaxDigits)
             THEN [ok |-> Canon(d)]
             ELSE None

\* value.parse::<usize>(): an optional `+`, then digits, within the usize range
ParseUsize(v) ==
    IF v = <<>> THEN None
    ELSE LET d == IF Head(v) = "+" THEN Tail(v) ELSE v
         IN  IF IsDigits(d) /\ DecLeq(Canon(d), UsizeMaxDigits)
             THEN [ok |-> Canon(d)]
             ELSE None


(***************************************************************************)
(* Manifests and the workspace (CrateInfo, Workspace).                     *)
(***************************************************************************)
\* the prefix "CONFIG_"
CONFIG_ == <<"C", "O", "N", "F", "I", "G", "_">>

\* CrateInfo { name, has_kbuild, features }; features maps a capability name
\* to its list of dependency specs
CrateInfo(name, has_kbuild, features) ==
    [name |-> name, has_kbuild |-> has_kbuild, features |-> features]

\* CrateInfo::is_kbuild_enabled, with the metadata flag alone
FlagOnlyEnabled(c) == c.has_kbuild

\* CrateInfo::is_kbuild_enabled
is_kbuild_enabled(c) ==
    c.has_kbuild \/ \E f \in DOMAIN c.features : StartsWith(f, CONFIG_)

\* parse_crate returning a CrateInfo for every manifest, whether it parses or not
parse_crate_unchecked(manifest) ==
    [ok |-> CrateInfo(manifest.name, manifest.has_kbuild, manifest.features)]

\* Workspace::parse_crate: Ok(CrateInfo) for a manifest that is readable and
\* parses, Err otherwise
parse_crate(manifest) ==
    IF manifest.parsable
    THEN [ok |-> CrateInfo(manifest.name, manifest.has_kbuild, manifest.features)]
    ELSE None

\* Workspace::new, the loop over the members: a member whose parse_crate
\* fails is left out
RECURSIVE load_members(_)
load_members(manifests) ==
    IF manifests = <<>> THEN <<>>
    ELSE LET r == parse_crate(Head(manifests))
         IN  (IF r = None THEN <<>> ELSE <<r.ok>>) \o load_members(Tail(manifests))

(***************************************************************************)
(* validate_features                                                        *)
(***************************************************************************)
\* the set of names of kbuild-enabled packages
kbuild_packages(crates) ==
    {crates[i].name : i \in {j \in 1..Len(crates) : is_kbuild_enabled(crates[j])}}

\* the set of names of all workspace packages
workspace_packages(crates) == {crates[i].name : i \in 1..Len(crates)}

\* classify_dep testing the target against all workspace packages
classify_dep_workspace(crates, dep) ==
    LET sp == SplitOnce(dep, "/")
    IN  IF sp = None THEN "bare"
        ELSE IF sp.before \in workspace_packages(crates) THEN "conflict"
        ELSE "third_party"

\* the decision taken for one dependency spec of a CONFIG_ capability
classify_dep(crates, dep) ==
    LET sp == SplitOnce(dep, "/")
    IN  IF sp = None THEN "bare"
        ELSE IF sp.before \in kbuild_packages(crates) THEN "conflict"
        ELSE IF sp.before \in workspace_packages(crates) THEN "non_kbuild"
        ELSE "third_party"

\* first_conflict pointing at the first `pkg/feature` spec of a list that holds
\* a conflict, whatever package that spec targets
first_sub_spec(crates, deps) ==
    IF \E k \in 1..Len(deps) : classify_dep(crates, deps[k]) = "conflict"
    THEN CHOOSE k \in 1..Len(deps) :
            /\ classify_dep(crates, deps[k]) # "bare"
            /\ \A j \in 1..(k - 1) : classify_dep(crates, deps[j]) = "bare"
    ELSE 0

\* the index of the first dependency spec of `deps` that is a conflict, or 0
first_conflict(crates, deps) ==
    IF \E k \in 1..Len(deps) : classify_dep(crates, deps[k]) = "conflict"
    THEN CHOOSE k \in 1..Len(deps) :
            /\ classify_dep(crates, deps[k]) = "conflict"
            /\ \A j \in 1..(k - 1) : classify_dep(crates, deps[j]) # "conflict"
    ELSE 0

\* conflicting_features with the CONFIG_ test of the capability name left out
conflicting_features_any_name(crates, c) ==
    {f \in DOMAIN c.features : first_conflict(crates, c.features[f]) # 0}

\* the capabilities of a crate on which the dependency loop returns the error
conflicting_features(crates, c) ==
    {f \in DOMAIN c.features :
        StartsWith(f, CONFIG_) /\ first_conflict(crates, c.features[f]) # 0}

\* the error message of a conflict: the fields it is formatted from
ValidationError(c, f, dep) ==
    LET sp == SplitOnce(dep, "/")
    IN  [kind |-> "conflict", crate |-> c.name, feature |-> f, dep |-> dep,
         pkg_name |-> sp.before, sub_feature |-> sp.after]

Ok == [ok |-> TRUE]

\* the results validate_features can return.  Crates are visited in Vec order;
\* the capabilities of a crate are visited in the HashMap's order, so the
\* error comes from any conflicting capability of the first crate that has one.
validate_features(crates) ==
    LET bad == {i \in 1..Len(crates) :
                   /\ is_kbuild_enabled(crates[i])
                   /\ conflicting_features(crates, crates[i]) # {}}
    IN  IF bad = {} THEN {Ok}
        ELSE LET i == CHOOSE k \in bad : \A j \in bad : k <= j
                 c == crates[i]
             IN  {[err |-> ValidationError(c, f,
                              c.features[f][first_conflict(crates, c.features[f])])] :
                    f \in conflicting_features(crates, c)}

(***************************************************************************)
(* collect_all_configs, generate_cargo_config                              *)
(***************************************************************************)
\* collect_all_configs without the CONFIG_ test
collect_all_features(crates) ==
    UNION {DOMAIN crates[i].features :
              i \in {j \in 1..Len(crates) : is_kbuild_enabled(crates[j])}}

\* collect_all_configs
collect_all_configs(crates) ==
    UNION {{f \in DOMAIN crates[i].features : StartsWith(f, CONFIG_)} :
              i \in {j \in 1..Len(crates) : is_kbuild_enabled(crates[j])}}

\* sorted_configs: the names in ascending order
sorted_configs(configs) ==
    CHOOSE p \in Perms(configs) :
        \A i \in 1..(Len(p) - 1) : StrLess(p[i], p[i + 1])

\* the content written to .cargo/config.toml: one --check-cfg line per name
generate_cargo_config(configs) ==
    [i \in 1..Cardinality(configs) |-> [check_cfg |-> sorted_configs(configs)[i]]]

(***************************************************************************)
(* parse_config                                                            *)
(***************************************************************************)
\* insert that keeps an entry already present
insert_if_absent(config, key, value) == config @@ (key :> value)

\* the table after `config.insert(key, value)`
insert(config, key, value) == (key :> value) @@ config

\* parse_line with the key and the value left untrimmed
parse_line_untrimmed(config, raw) ==
    LET line == Trim(raw)
    IN  IF line = <<>> \/ StartsWith(line, <<"#">>) THEN config
        ELSE LET sp == SplitOnce(line, "=")
             IN  IF sp = None THEN config
                 ELSE insert(config, sp.before, sp.after)

\* parse_line taking a line without `=` as a key with an empty value
parse_line_bare_key(config, raw) ==
    LET line == Trim(raw)
    IN  IF line = <<>> \/ StartsWith(line, <<"#">>) THEN config
        ELSE LET sp == SplitOnce(line, "=")
             IN  IF sp = None THEN insert(config, line, <<>>)
                 ELSE insert(config, Trim(sp.before), Trim(sp.after))

\* the body of the loop for one line: the table after the line
parse_line(config, raw) ==
    LET line == Trim(raw)
    IN  IF line = <<>> \/ StartsWith(line, <<"#">>) THEN config
        ELSE LET sp == SplitOnce(line, "=")
             IN  IF sp = None THEN config
                 ELSE insert(config, Trim(sp.before), Trim(sp.after))

\* the loop over content.lines(), from the table `config` on
RECURSIVE parse_lines(_, _)
parse_lines(config, lines) ==
    IF lines = <<>> THEN config
    ELSE parse_lines(parse_line(config, Head(lines)), Tail(lines))

\* the empty HashMap
EmptyMap == [k \in {} |-> <<>>]

\* an error message that names no input text
Message(msg) == [kind |-> "message", msg |-> msg]

\* parse_config: Err when the file cannot be read, else Ok(table)
parse_config(file) ==
    IF ~file.readable THEN [err |-> Message("Failed to read .config")]
    ELSE [ok |-> parse_lines(EmptyMap, file.lines)]

(***************************************************************************)
(* generate_features, generate_config_rs                                   *)
(* `order` is the order in which the HashMap `config` is iterated.         *)
(***************************************************************************)
Y == <<"y">>
M == <<"m">>
N == <<"n">>

\* the test of generate_features with `m` forgotten
is_enabled_y_only(key, value) == StartsWith(key, CONFIG_) /\ value = Y

\* the test of generate_features for one entry
is_enabled(key, value) == StartsWith(key, CONFIG_) /\ (value = Y \/ value = M)

\* generate_features: the enabled keys, in iteration order
generate_features(config, order) ==
    SelectSeq(order, LAMBDA k : is_enabled(k, config[k]))

Quote == "\""

\* the constant emitted for one entry: "skip" (no constant), a constant, or
\* "panic" (the slice &value[1..value.len()-1] with 1 > len-1)
config_constant(key, value) ==
    IF ~StartsWith(key, CONFIG_) THEN [kind |-> "skip"]
    ELSE IF value = Y \/ value = N \/ value = M THEN [kind |-> "skip"]
    ELSE IF ParseI32(value) # None
    THEN [kind |-> "const", name |-> key, type |-> "i32", literal |-> ParseI32(value).ok]
    ELSE IF StartsWith(value, <<Quote>>) /\ EndsWith(value, <<Quote>>)
    THEN IF 1 > Len(value) - 1
         THEN [kind |-> "panic"]
         ELSE [kind |-> "const", name |-> key, type |-> "str",
               literal |-> SubSeq(value, 2, Len(value) - 1)]
    ELSE IF ParseUsize(value) # None
    THEN [kind |-> "const", name |-> key, type |-> "usize",
          literal |-> ParseUsize(value).ok]
    ELSE [kind |-> "skip"]

\* generate_config_rs: the constants written to config.rs in iteration
\* order, or a panic before anything is written
generate_config_rs(config, order) ==
    LET each == [i \in 1..Len(order) |-> config_constant(order[i], config[order[i]])]
    IN  IF \E i \in 1..Len(order) : each[i].kind = "panic"
        THEN [panic |-> TRUE]
        ELSE [ok |-> SelectSeq(each, LAMBDA c : c.kind = "const")]

(***************************************************************************)
(* Inputs: the files and the environment the tool runs in.                 *)
(***************************************************************************)
PkgA == <<"a">>
PkgB == <<"b">>
CONFIG_A == CONFIG_ \o <<"A">>
CONFIG_B == CONFIG_ \o <<"B">>
CONFIG_C == CONFIG_ \o <<"C">>
Std == <<"s", "t", "d">>

\* dependency specs: a workspace package with a sub-capability, a third-party
\* library with a sub-capability, a bare package name
DepSpecs ==
    {PkgA \o <<"/", "x">>, <<"l", "o", "g", "/", "x">>, PkgA}

\* lists of at most n dependency specs
RECURSIVE DepLists(_)
DepLists(n) ==
    IF n <= 0 THEN {<<>>}
    ELSE DepLists(n - 1) \cup
         {Append(l, d) : l \in {m \in DepLists(n - 1) : Len(m) = n - 1}, d \in DepSpecs}

\* number of dependency specs of a feature table
DepCount(features) ==
    LET RECURSIVE Sum(_)
        Sum(S) == IF S = {} THEN 0
                  ELSE LET f == CHOOSE g \in S : TRUE
                       IN  Len(features[f]) + Sum(S \ {f})
    IN  Sum(DOMAIN features)

\* feature tables over the two capability names f1, f2 with at most n specs
FeatureTables(f1, f2, n) ==
    {EmptyMap}
    \cup {(f1 :> l) : l \in DepLists(n)}
    \cup {(f2 :> l) : l \in DepLists(n)}
    \cup UNION {{(f1 :> l1) @@ (f2 :> l2) : l2 \in DepLists(n - Len(l1))} : l1 \in DepLists(n)}

\* the manifests a member can have: parsable ones, and unparsable ones
Manifests(name, f1, f2, n) ==
    {[name |-> name, parsable |-> TRUE, has_kbuild |-> k, features |-> t] :
        k \in BOOLEAN, t \in FeatureTables(f1, f2, n)}
    \cup {[name |-> name, parsable |-> FALSE, has_kbuild |-> k, features |-> EmptyMap] :
            k \in BOOLEAN}

\* the member manifests of a workspace of two members
Workspaces ==
    UNION {{<<ma, mb>> : mb \in Manifests(PkgB, CONFIG_A, CONFIG_B,
                                          MaxDeps - DepCount(ma.features))} :
              ma \in Manifests(PkgA, CONFIG_A, Std, MaxDeps)}

Manifest(name, k, t) == [name |-> name, parsable |-> TRUE, has_kbuild |-> k, features |-> t]

FewWorkspaces ==
    { <<Manifest(PkgA, FALSE, (CONFIG_A :> <<>>) @@ (Std :> << <<"l", "o", "g", "/", "x">> >>)),
        Manifest(PkgB, FALSE, (CONFIG_B :> <<PkgA>>))>>,
      <<Manifest(PkgA, TRUE, EmptyMap),
        Manifest(PkgB, FALSE, (CONFIG_B :> <<PkgA \o <<"/", "x">> >>))>>,
      <<Manifest(PkgA, FALSE, (Std :> <<>>)),
        Manifest(PkgB, FALSE, EmptyMap)>> }

\* a config line `key=value`
KV(k, v) == k \o <<"=">> \o v

\* values of a config entry
ValueTexts ==
    { Y, M, N,
      <<"4", "2">>, <<"-", "5">>, <<"+", "0", "7">>,
      <<Quote, "h", "i", Quote>>, <<Quote>>, <<Quote, Quote>>, <<>>,
      <<"2", "1", "4", "7", "4", "8", "3", "6", "4", "8">>,
      <<"1", "8", "4", "4", "6", "7", "4", "4", "0", "7",
        "3", "7", "0", "9", "5", "5", "1", "6", "1", "6">>,
      <<"a", "=", "b">> }

\* lines of a config file
LineTexts ==
    {KV(CONFIG_A, v) : v \in ValueTexts}
    \cup {KV(CONFIG_C, Y), KV(CONFIG_C, N), KV(CONFIG_B, <<"4", "2">>)}
    \cup {KV(<<"X">>, Y), KV(<<"X">>, <<"4", "2">>)}
    \cup { <<>>,
           <<" ", "\t">>,
           <<"#", " ">> \o KV(CONFIG_A, Y),
           <<" ", "#">> \o KV(CONFIG_B, Y),
           CONFIG_A,
           <<" ">> \o CONFIG_A \o <<" ", "=", " ", "m", "\t">>,
           <<"=", "y">> }

\* files of at most n lines
RECURSIVE LineLists(_)
LineLists(n) ==
    IF n <= 0 THEN {<<>>}
    ELSE LineLists(n - 1) \cup
         {Append(l, t) : l \in {m \in LineLists(n - 1) : Len(m) = n - 1}, t \in LineTexts}

File(lines) == [readable |-> TRUE, lines |-> lines]
Unreadable == [readable |-> FALSE, lines |-> <<>>]

Files == {File(l) : l \in LineLists(MaxLines)} \cup {Unreadable}

FewFiles ==
    { File(<<KV(CONFIG_A, Y), KV(CONFIG_C, M)>>),
      File(<<KV(CONFIG_A, N), KV(CONFIG_B, Y)>>),
      Unreadable }

\* states of the workspace root Cargo.toml
RootStates == {"ok", "unreadable", "unparsable", "no_members", "invalid_member"}

\* the directories the tool writes to
Dirs == {".cargo", "target/kbuild"}

\* exit codes of the cargo process
ExitCodes == {0, 1, 101}

\* values of RUSTFLAGS in the environment of the tool: unset, or some flags
Unset == [unset |-> TRUE]
ParentFlags == {Unset, [set |-> <<[parent |-> "-C opt-level=2"]>>]}

(***************************************************************************)
(* State.                                                                  *)
(***************************************************************************)
VARIABLES
    fs_root,          \* state of the workspace root Cargo.toml
    fs_members,       \* the member manifests on disk
    fs_config,        \* the config file on disk
    fs_writable,      \* the directories in which files can be created
    cargo_runnable,   \* whether the cargo process can be started
    cargo_exit,       \* the exit code cargo ends with when it is run
    env_rustflags,    \* RUSTFLAGS in the tool's own environment
    pc,               \* position in `build` / `cmd_build`
    workspace,        \* Workspace.crates
    all_configs,      \* the result of collect_all_configs
    cargo_config,     \* content of .cargo/config.toml, or Absent
    config,           \* the HashMap returned by parse_config: its entries (map)
                      \* and the order in which it iterates (order), or Absent
    config_rs,        \* content of target/kbuild/config.rs, or Absent
    features,         \* the result of generate_features
    cargo_args,       \* the arguments of the cargo command
    rustflags,        \* the RUSTFLAGS string built by `build`
    child,            \* the cargo process as spawned, or Absent
    result,           \* the value `build` returns
    exit_code,        \* the exit code of the tool
    first_run         \* the generated files as an earlier invocation left them,
                      \* or Absent in the first invocation

env == <<fs_root, fs_members, fs_config, fs_writable, cargo_runnable, cargo_exit,
         env_rustflags>>
vars == <<fs_root, fs_members, fs_config, fs_writable, cargo_runnable, cargo_exit,
          env_rustflags, pc, workspace, all_configs, cargo_config, config,
          config_rs, features, cargo_args, rustflags, child, result,
          exit_code, first_run>>

Running == [running |-> TRUE]

Init ==
    /\ \/ /\ fs_members \in Workspaces
          /\ fs_config \in FewFiles
          /\ fs_root = "ok" /\ fs_writable = Dirs /\ cargo_runnable = TRUE
          /\ cargo_exit = 0 /\ env_rustflags = Unset
       \/ /\ fs_members \in FewWorkspaces
          /\ fs_config \in Files
          /\ fs_root = "ok" /\ fs_writable = Dirs /\ cargo_runnable = TRUE
          /\ cargo_exit = 0 /\ env_rustflags = Unset
       \/ /\ fs_members \in FewWorkspaces
          /\ fs_config \in FewFiles
          /\ fs_root \in RootStates
          /\ fs_writable \in SUBSET Dirs
          /\ cargo_runnable \in BOOLEAN
          /\ cargo_exit \in ExitCodes
          /\ env_rustflags \in ParentFlags
    /\ pc = "workspace"
    /\ workspace = <<>>
    /\ all_configs = {}
    /\ cargo_config = Absent
    /\ config = Absent
    /\ config_rs = Absent
    /\ features = <<>>
    /\ cargo_args = Absent
    /\ rustflags = <<>>
    /\ child = Absent
    /\ result = Running
    /\ exit_code = -1
    /\ first_run = Absent

\* `build` returns Err(e) through the `?` operator
Fail(e) ==
    /\ result' = [err |-> e]
    /\ pc' = "returned"

(***************************************************************************)
(* build: Workspace::new                                                   *)
(***************************************************************************)
WorkspaceNewErr ==
    /\ pc = "workspace"
    /\ fs_root # "ok"
    /\ Fail(Message(CASE fs_root = "unreadable" -> "Failed to read workspace Cargo.toml"
                      [] fs_root = "unparsable" -> "Failed to parse workspace Cargo.toml"
                      [] fs_root = "no_members" -> "No workspace members found"
                      [] OTHER -> "Invalid member path"))
    /\ UNCHANGED <<env, first_run, workspace, all_configs, cargo_config, config,
                   config_rs, features, cargo_args, rustflags, child, exit_code>>

WorkspaceNew ==
    /\ pc = "workspace"
    /\ fs_root = "ok"
    /\ workspace' = load_members(fs_members)
    /\ pc' = "cargo_config"
    /\ UNCHANGED <<env, first_run, all_configs, cargo_config, config, config_rs,
                   features, cargo_args, rustflags, child, result, exit_code>>

(***************************************************************************)
(* build: collect_all_configs, generate_cargo_config                       *)
(***************************************************************************)
GenerateCargoConfig ==
    /\ pc = "cargo_config"
    /\ ".cargo" \in fs_writable
    /\ all_configs' = collect_all_configs(workspace)
    /\ cargo_config' = [content |-> generate_cargo_config(collect_all_configs(workspace))]
    /\ pc' = "validate"
    /\ UNCHANGED <<env, first_run, workspace, config, config_rs, features,
                   cargo_args, rustflags, child, result, exit_code>>

GenerateCargoConfigErr ==
    /\ pc = "cargo_config"
    /\ ".cargo" \notin fs_writable
    /\ all_configs' = collect_all_configs(workspace)
    /\ Fail(Message("Failed to write .cargo/config.toml"))
    /\ UNCHANGED <<env, first_run, workspace, cargo_config, config, config_rs,
                   features, cargo_args, rustflags, child, exit_code>>

(***************************************************************************)
(* build: validate_features                                                *)
(***************************************************************************)
\* `build` going on to parse_config without looking at the result of
\* validate_features
ValidateIgnored ==
    /\ pc = "validate"
    /\ pc' = "parse"
    /\ UNCHANGED <<env, first_run, workspace, all_configs, cargo_config, config,
                   config_rs, features, cargo_args, rustflags, child, result,
                   exit_code>>

ValidateOk ==
    /\ pc = "validate"
    /\ Ok \in validate_features(workspace)
    /\ pc' = "parse"
    /\ UNCHANGED <<env, first_run, workspace, all_configs, cargo_config, config,
                   config_rs, features, cargo_args, rustflags, child, result,
                   exit_code>>

ValidateErr ==
    /\ pc = "validate"
    /\ \E r \in validate_features(workspace) :
          /\ r # Ok
          /\ Fail(r.err)
    /\ UNCHANGED <<env, first_run, workspace, all_configs, cargo_config, config,
                   config_rs, features, cargo_args, rustflags, child, exit_code>>

(***************************************************************************)
(* build: parse_config                                                     *)
(***************************************************************************)
ParseConfig ==
    /\ pc = "parse"
    /\ LET r == parse_config(fs_config)
       IN  /\ "ok" \in DOMAIN r
           /\ \E order \in Perms(DOMAIN r.ok) :
                 config' = [map |-> r.ok, order |-> order]
    /\ pc' = "config_rs"
    /\ UNCHANGED <<env, first_run, workspace, all_configs, cargo_config, config_rs, features,
                   cargo_args, rustflags, child, result, exit_code>>

ParseConfigErr ==
    /\ pc = "parse"
    /\ LET r == parse_config(fs_config)
       IN  /\ "err" \in DOMAIN r
           /\ Fail(r.err)
    /\ UNCHANGED <<env, first_run, workspace, all_configs, cargo_config, config,
                   config_rs, features, cargo_args, rustflags, child, exit_code>>

(***************************************************************************)
(* build: generate_config_rs                                               *)
(***************************************************************************)
GenerateConfigRs ==
    /\ pc = "config_rs"
    /\ "target/kbuild" \in fs_writable
    /\ LET r == generate_config_rs(config.map, config.order)
       IN  /\ "ok" \in DOMAIN r
           /\ config_rs' = [content |-> r.ok]
    /\ pc' = "command"
    /\ UNCHANGED <<env, first_run, workspace, all_configs, cargo_config, config,
                   features, cargo_args, rustflags, child, result, exit_code>>

GenerateConfigRsErr ==
    /\ pc = "config_rs"
    /\ "target/kbuild" \notin fs_writable
    /\ Fail(Message("Failed to create target/kbuild"))
    /\ UNCHANGED <<env, first_run, workspace, all_configs, cargo_config, config,
                   config_rs, features, cargo_args, rustflags, child, exit_code>>

\* the slice panics: the thread unwinds out of main and the process ends with
\* the panic exit code 101; config.rs is not written
GenerateConfigRsPanic ==
    /\ pc = "config_rs"
    /\ "target/kbuild" \in fs_writable
    /\ "panic" \in DOMAIN generate_config_rs(config.map, config.order)
    /\ result' = [panic |-> TRUE]
    /\ exit_code' = 101
    /\ pc' = "exited"
    /\ UNCHANGED <<env, first_run, workspace, all_configs, cargo_config, config,
                   config_rs, features, cargo_args, rustflags, child>>

(***************************************************************************)
(* build: generate_features, the cargo arguments and RUSTFLAGS             *)
(***************************************************************************)
\* cargo_args: "build", then "--features" and the joined list when not empty
build_args(feats) ==
    IF feats # <<>> THEN [subcommand |-> "build", features |-> [joined |-> feats]]
    ELSE [subcommand |-> "build", features |-> Absent]

\* the RUSTFLAGS string: a --check-cfg per declared name (`declared` is
\* all_configs in its iteration order), then a --cfg per feature
build_rustflags(declared, feats) ==
    [i \in 1..Len(declared) |-> [check_cfg |-> declared[i]]]
    \o [i \in 1..Len(feats) |-> [cfg |-> feats[i]]]

PrepareCommand ==
    /\ pc = "command"
    /\ features' = generate_features(config.map, config.order)
    /\ cargo_args' = build_args(generate_features(config.map, config.order))
    /\ \E declared \in Perms(all_configs) :
          rustflags' = build_rustflags(declared, generate_features(config.map, config.order))
    /\ pc' = "spawn"
    /\ UNCHANGED <<env, first_run, workspace, all_configs, cargo_config, config,
                   config_rs, child, result, exit_code>>

(***************************************************************************)
(* build: running cargo                                                    *)
(***************************************************************************)
\* RUSTFLAGS in the environment of the cargo process: cmd.env sets it when
\* the built string is not empty, otherwise the tool's environment is inherited
child_rustflags(built, inherited) == IF built # <<>> THEN [set |-> built] ELSE inherited

Command ==
    [args |-> cargo_args,
     rustflags |-> child_rustflags(rustflags, env_rustflags),
     status |-> cargo_exit]

SpawnErr ==
    /\ pc = "spawn"
    /\ ~cargo_runnable
    /\ Fail(Message("Failed to run cargo"))
    /\ UNCHANGED <<env, first_run, workspace, all_configs, cargo_config, config,
                   config_rs, features, cargo_args, rustflags, child, exit_code>>

BuildSucceeds ==
    /\ pc = "spawn"
    /\ cargo_runnable
    /\ cargo_exit = 0
    /\ child' = Command
    /\ result' = Ok
    /\ pc' = "returned"
    /\ UNCHANGED <<env, first_run, workspace, all_configs, cargo_config, config,
                   config_rs, features, cargo_args, rustflags, exit_code>>

BuildFails ==
    /\ pc = "spawn"
    /\ cargo_runnable
    /\ cargo_exit # 0
    /\ child' = Command
    /\ Fail(Message("Build failed"))
    /\ UNCHANGED <<env, first_run, workspace, all_configs, cargo_config, config,
                   config_rs, features, cargo_args, rustflags, exit_code>>

(***************************************************************************)
(* cmd_build: the exit code of the tool                                    *)
(***************************************************************************)
\* cmd_build, had it passed on the status of the cargo process
exit_with_child_status(r, c) ==
    IF r = Ok THEN 0 ELSE IF c # Absent THEN c.status ELSE 1

\* cmd_build: process::exit(1) on Err; on Ok main returns
cmd_build_exit(r, c) == IF r = Ok THEN 0 ELSE 1

CmdBuildExit ==
    /\ pc = "returned"
    /\ exit_code' = cmd_build_exit(result, child)
    /\ pc' = "exited"
    /\ UNCHANGED <<env, first_run, workspace, all_configs, cargo_config, config,
                   config_rs, features, cargo_args, rustflags, child, result>>

Next ==
    \/ WorkspaceNew
    \/ WorkspaceNewErr
    \/ GenerateCargoConfig
    \/ GenerateCargoConfigErr
    \/ ValidateOk
    \/ ValidateErr
    \/ ParseConfig
    \/ ParseConfigErr
    \/ GenerateConfigRs
    \/ GenerateConfigRsErr
    \/ GenerateConfigRsPanic
    \/ PrepareCommand
    \/ SpawnErr
    \/ BuildSucceeds
    \/ BuildFails
    \/ CmdBuildExit

Spec == Init /\ [][Next]_vars

(***************************************************************************)
(* main, invoked a second time on the same workspace: the inputs and the   *)
(* files the first invocation wrote are still on disk, everything `build`  *)
(* holds in memory starts afresh.                                          *)
(***************************************************************************)
InvokeAgain ==
    /\ pc = "exited"
    /\ first_run = Absent
    /\ first_run' = [cargo_config |-> cargo_config, config_rs |-> config_rs]
    /\ pc' = "workspace"
    /\ workspace' = <<>>
    /\ all_configs' = {}
    /\ config' = Absent
    /\ features' = <<>>
    /\ cargo_args' = Absent
    /\ rustflags' = <<>>
    /\ child' = Absent
    /\ result' = Running
    /\ exit_code' = -1
    /\ UNCHANGED <<env, cargo_config, config_rs>>

NextTwice ==
    \/ Next
    \/ InvokeAgain

SpecTwice == Init /\ [][NextTwice]_vars

(***************************************************************************)
(* Vocabulary of the properties, stated on the inputs and not through the  *)
(* operators of the tool.                                                  *)
(***************************************************************************)
\* the run ended with the conflict error of validate_features
ConflictReported == "err" \in DOMAIN result /\ result.err.kind = "conflict"

\* validate_features has just returned: Ok, or the conflict error (the inputs
\* do not change afterwards)
Validated == pc = "parse" \/ ConflictReported

\* parse_config has just returned Ok
Parsed == pc = "config_rs"

\* the cargo command has just been built
CommandBuilt == pc = "spawn"

\* a package is configuration-aware: by the metadata flag, or by declaring a
\* capability with the CONFIG_ prefix
Aware(c) ==
    \/ c.has_kbuild = TRUE
    \/ \E f \in DOMAIN c.features : Len(f) >= 7 /\ SubSeq(f, 1, 7) = CONFIG_

\* dep is `name/sub`
IsSubSpec(dep, name) ==
    Len(dep) > Len(name) /\ SubSeq(dep, 1, Len(name)) = name /\ dep[Len(name) + 1] = "/"

\* the dependency specs of the CONFIG_ capabilities of aware packages, each
\* with the package that declares it
InspectedSpecs ==
    {<<i, f, k>> \in
        UNION {UNION {{<<i, f, k>> : k \in 1..Len(workspace[i].features[f])} :
                         f \in DOMAIN workspace[i].features} :
                  i \in 1..Len(workspace)} :
        Aware(workspace[i]) /\ StartsWith(f, CONFIG_)}

SpecAt(t) == workspace[t[1]].features[t[2]][t[3]]

\* some inspected spec is `name/sub` with `name` an aware workspace package
HasConflict ==
    \E t \in InspectedSpecs :
        \E j \in 1..Len(workspace) :
            Aware(workspace[j]) /\ IsSubSpec(SpecAt(t), workspace[j].name)

(***************************************************************************)
(* C1: whenever a configuration-aware package has a CONFIG_ capability     *)
(* whose list holds a spec `name/sub` with `name` a configuration-aware    *)
(* workspace package, validate_features returns the conflict error.        *)
(***************************************************************************)
C1_ConflictFails == (Validated /\ HasConflict) => ConflictReported

\* a conflict was reported whose target is aware through the metadata flag
\* alone, declared by a package that is aware through its capability alone
C1_Witness ==
    /\ Validated /\ ConflictReported
    /\ \E i, j \in 1..Len(workspace) :
          /\ workspace[i].name = result.err.crate
          /\ ~workspace[i].has_kbuild
          /\ workspace[j].name = result.err.pkg_name
          /\ workspace[j].has_kbuild
          /\ \A f \in DOMAIN workspace[j].features : ~StartsWith(f, CONFIG_)

(***************************************************************************)
(* C2: when no CONFIG_ capability of an aware package has a `name/sub`     *)
(* spec with an aware `name`, validate_features returns Ok; specs that     *)
(* name a non-aware package or no workspace package do not fail it.        *)
(***************************************************************************)
C2_NoConflictPasses == (Validated /\ ~HasConflict) => ~ConflictReported

\* validation passed with an inspected `name/sub` spec on a non-aware
\* workspace package and one on a name outside the workspace
C2_Witness ==
    /\ Validated /\ pc = "parse"
    /\ \E t \in InspectedSpecs :
          \E j \in 1..Len(workspace) :
              ~Aware(workspace[j]) /\ IsSubSpec(SpecAt(t), workspace[j].name)
    /\ \E t \in InspectedSpecs :
          /\ "/" \in Range(SpecAt(t))
          /\ \A j \in 1..Len(workspace) : ~IsSubSpec(SpecAt(t), workspace[j].name)

(***************************************************************************)
(* Vocabulary of the properties about the config file, stated on its lines.*)
(***************************************************************************)
HasPrefix(k) == Len(k) >= 7 /\ SubSeq(k, 1, 7) = CONFIG_

\* the line is not ignored and holds a `=`
Counts(raw) ==
    LET t == Trim(raw) IN t # <<>> /\ t[1] # "#" /\ "=" \in Range(t)

\* the position of the first `=` of a text that holds one
FirstEq(t) == CHOOSE i \in 1..Len(t) : t[i] = "=" /\ \A j \in 1..(i - 1) : t[j] # "="

KeyOf(raw) == LET t == Trim(raw) IN Trim(SubSeq(t, 1, FirstEq(t) - 1))
ValOf(raw) == LET t == Trim(raw) IN Trim(SubSeq(t, FirstEq(t) + 1, Len(t)))

\* the lines of `lines` that set key k
SetBy(lines, k) == {i \in 1..Len(lines) : Counts(lines[i]) /\ KeyOf(lines[i]) = k}

\* the keys set by some line
KeysOf(lines) == {KeyOf(lines[i]) : i \in {j \in 1..Len(lines) : Counts(lines[j])}}

\* the value of the last line that sets k
FinalValue(lines, k) ==
    ValOf(lines[CHOOSE i \in SetBy(lines, k) : \A j \in SetBy(lines, k) : j <= i])

\* the capability names with the CONFIG_ prefix that some loaded manifest declares
DeclaredNames ==
    {f \in UNION {DOMAIN workspace[i].features : i \in 1..Len(workspace)} : HasPrefix(f)}

\* the names given as `--cfg` in the RUSTFLAGS string built by `build`
CfgFlags == {rustflags[i].cfg : i \in {j \in 1..Len(rustflags) : "cfg" \in DOMAIN rustflags[j]}}

\* the names given as `--check-cfg` in the RUSTFLAGS string built by `build`
CheckCfgFlags ==
    {rustflags[i].check_cfg :
        i \in {j \in 1..Len(rustflags) : "check_cfg" \in DOMAIN rustflags[j]}}

\* the names of the `--features` argument
Activation ==
    IF cargo_args = Absent \/ cargo_args.features = Absent THEN {}
    ELSE Range(cargo_args.features.joined)

(***************************************************************************)
(* C3: the names of the `--features` argument are all in the declared      *)
(* symbol set (collect_all_configs); a key set to y or m that no package   *)
(* declares is not among them.                                             *)
(***************************************************************************)
C3_ActivationDeclared == cargo_args # Absent => Activation \subseteq all_configs

(***************************************************************************)
(* C4: a CONFIG_ symbol whose final value in the file is y or m and that   *)
(* some manifest declares is among the --cfg flags and in the --features   *)
(* argument; one whose final value is n, or that no line sets (a comment   *)
(* line sets nothing), is in neither.                                      *)
(***************************************************************************)
C4_RoundTrip ==
    CommandBuilt =>
        \A k \in KeysOf(fs_config.lines) \cup DeclaredNames \cup {CONFIG_A, CONFIG_B, CONFIG_C} :
            HasPrefix(k) =>
                /\ ( /\ SetBy(fs_config.lines, k) # {}
                     /\ FinalValue(fs_config.lines, k) \in {Y, M}
                     /\ k \in DeclaredNames )
                   => (k \in CfgFlags /\ k \in Activation)
                /\ ( \/ SetBy(fs_config.lines, k) = {}
                     \/ FinalValue(fs_config.lines, k) = N )
                   => (k \notin CfgFlags /\ k \notin Activation)

\* a command built with a declared symbol set to m in both lists, and a
\* declared symbol that only a comment line mentions in neither
C4_Witness ==
    /\ CommandBuilt
    /\ \E k \in DeclaredNames :
          /\ SetBy(fs_config.lines, k) # {}
          /\ FinalValue(fs_config.lines, k) = M
          /\ k \in CfgFlags /\ k \in Activation
    /\ \E k \in DeclaredNames :
          /\ \E i \in 1..Len(fs_config.lines) : fs_config.lines[i] = <<" ", "#">> \o KV(k, Y)
          /\ SetBy(fs_config.lines, k) = {}
          /\ k \notin CfgFlags /\ k \notin Activation

(***************************************************************************)
(* C5: for every CONFIG_ key whose value is not y, m or n,                 *)
(* generate_config_rs emits one constant: i32 if the value parses as i32,  *)
(* else a string with the quotes stripped if the value begins and ends     *)
(* with a quote, else usize if the value parses as usize; a value matching *)
(* none, a y/m/n value and a key without the prefix give no constant.      *)
(***************************************************************************)
\* generate_config_rs was called and went past creating its directory
ConstantsRan == config_rs # Absent \/ "panic" \in DOMAIN result

ExpectedType(k, v) ==
    IF ~HasPrefix(k) \/ v \in {Y, M, N} THEN "none"
    ELSE IF ParseI32(v) # None THEN "i32"
    ELSE IF v # <<>> /\ v[1] = Quote /\ v[Len(v)] = Quote THEN "str"
    ELSE IF ParseUsize(v) # None THEN "usize"
    ELSE "none"

C5_TypeProjection ==
    ConstantsRan =>
        /\ config_rs # Absent
        /\ \A k \in DOMAIN config.map :
              LET cs == {i \in 1..Len(config_rs.content) : config_rs.content[i].name = k}
                  t  == ExpectedType(k, config.map[k])
              IN  /\ Cardinality(cs) <= 1
                  /\ (t = "none") <=> (cs = {})
                  /\ \A i \in cs :
                        /\ config_rs.content[i].type = t
                        /\ t = "str" =>
                              <<Quote>> \o config_rs.content[i].literal \o <<Quote>>
                                 = config.map[k]

(***************************************************************************)
(* C6: each line that, trimmed, is not empty, does not begin with `#` and  *)
(* holds a `=` gives the entry (trimmed text before the first `=`, trimmed *)
(* text after it), unless a later line sets the same key; every entry of   *)
(* the table comes from such a line, so empty and `#` lines give none.     *)
(***************************************************************************)
C6_LineEntries ==
    Parsed =>
        LET L == fs_config.lines
        IN  /\ \A i \in 1..Len(L) :
                  Counts(L[i]) =>
                      /\ KeyOf(L[i]) \in DOMAIN config.map
                      /\ \/ config.map[KeyOf(L[i])] = ValOf(L[i])
                         \/ \E j \in (i + 1)..Len(L) :
                               Counts(L[j]) /\ KeyOf(L[j]) = KeyOf(L[i])
            /\ \A k \in DOMAIN config.map :
                  \E i \in 1..Len(L) :
                      Counts(L[i]) /\ KeyOf(L[i]) = k /\ ValOf(L[i]) = config.map[k]

\* a table parsed from a file with an ignored `#` line and a line padded
\* with whitespace whose entry is the trimmed key and value
C6_Witness ==
    /\ Parsed
    /\ \E i \in 1..Len(fs_config.lines) : StartsWith(Trim(fs_config.lines[i]), <<"#">>)
    /\ \E i \in 1..Len(fs_config.lines) :
          /\ Counts(fs_config.lines[i])
          /\ Trim(fs_config.lines[i]) # fs_config.lines[i]
          /\ KeyOf(fs_config.lines[i]) = CONFIG_A
          /\ config.map[CONFIG_A] = M

(***************************************************************************)
(* C7: when several lines set the same key the table holds the value of    *)
(* the last of them; a key set to y and later to n is left inactive.       *)
(***************************************************************************)
C7_LastWins ==
    /\ Parsed =>
          \A k \in KeysOf(fs_config.lines) :
              k \in DOMAIN config.map /\ config.map[k] = FinalValue(fs_config.lines, k)
    /\ CommandBuilt =>
          \A k \in KeysOf(fs_config.lines) :
              FinalValue(fs_config.lines, k) = N => (k \notin CfgFlags /\ k \notin Activation)

\* the command was built from a file that sets a key to y and then to n
C7_Witness ==
    /\ CommandBuilt
    /\ \E i, j \in 1..Len(fs_config.lines) :
          /\ i < j
          /\ Counts(fs_config.lines[i]) /\ Counts(fs_config.lines[j])
          /\ KeyOf(fs_config.lines[i]) = KeyOf(fs_config.lines[j])
          /\ ValOf(fs_config.lines[i]) = Y /\ ValOf(fs_config.lines[j]) = N
          /\ config.map[KeyOf(fs_config.lines[i])] = N
          /\ KeyOf(fs_config.lines[i]) \notin CfgFlags

(***************************************************************************)
(* C8: parse_config returns an error only for a file that cannot be read;  *)
(* for a readable file it returns a table, and that table is the one of    *)
(* the file without its non-ignored lines that hold no `=`.                *)
(***************************************************************************)
\* the call of parse_config in `build` has just returned: Ok, or an error
ParseReturned ==
    \/ Parsed
    \/ pc = "returned" /\ cargo_config # Absent /\ config = Absent /\ ~ConflictReported

\* the line is not ignored and holds no `=`
Dropped(raw) ==
    LET t == Trim(raw) IN t # <<>> /\ t[1] # "#" /\ "=" \notin Range(t)

WithoutDropped(lines) == SelectSeq(lines, LAMBDA raw : ~Dropped(raw))

C8_OnlyUnreadableFails ==
    /\ (ParseReturned /\ fs_config.readable) => config # Absent
    /\ (ParseReturned /\ ~fs_config.readable) =>
          (config = Absent /\ result = [err |-> Message("Failed to read .config")])
    /\ Parsed =>
          config.map = parse_config(File(WithoutDropped(fs_config.lines))).ok

\* a table parsed from a file with a dropped line and a line that gives an entry
C8_Witness ==
    /\ Parsed
    /\ \E i \in 1..Len(fs_config.lines) : Dropped(fs_config.lines[i])
    /\ DOMAIN config.map # {}

(***************************************************************************)
(* C9: the declared symbol set is exactly the set of CONFIG_ capability    *)
(* names declared by configuration-aware packages, whatever the config     *)
(* file holds; the generated .cargo/config.toml and the --check-cfg flags  *)
(* name exactly this set.                                                  *)
(***************************************************************************)
C9_DeclaredSet ==
    /\ (fs_root = "ok" /\ pc \notin {"workspace", "cargo_config"}) =>
          all_configs =
              {f \in UNION {DOMAIN workspace[i].features :
                               i \in {j \in 1..Len(workspace) : Aware(workspace[j])}} :
                  HasPrefix(f)}
    /\ cargo_config # Absent =>
          {cargo_config.content[i].check_cfg : i \in 1..Len(cargo_config.content)}
             = all_configs
    /\ CommandBuilt => CheckCfgFlags = all_configs

\* the command was built for a workspace in which an aware package declares
\* a capability without the prefix, with a file that sets an undeclared symbol
C9_Witness ==
    /\ CommandBuilt
    /\ all_configs # {}
    /\ \E i \in 1..Len(workspace) :
          Aware(workspace[i]) /\ \E f \in DOMAIN workspace[i].features : ~HasPrefix(f)
    /\ \E k \in KeysOf(fs_config.lines) :
          HasPrefix(k) /\ k \notin all_configs /\ k \in CfgFlags

(***************************************************************************)
(* C10, as amended: when the cargo process exits with a non-zero status,   *)
(* the tool exits with status 1, whatever that status was.                 *)
(***************************************************************************)
C10_ExitsWithOne ==
    (pc = "exited" /\ child # Absent /\ child.status # 0) => exit_code = 1

\* cargo ended with status 101 and the tool with status 1
C10_Witness ==
    pc = "exited" /\ child # Absent /\ child.status = 101 /\ exit_code = 1

\* C10 as stated: the tool exits with the status of the cargo process
C10_ExitPropagated ==
    (pc = "exited" /\ child # Absent /\ child.status # 0) => exit_code = child.status

(***************************************************************************)
(* C11: when RUSTFLAGS is set in the environment of the tool, the value    *)
(* given to the cargo process holds that value together with the generated *)
(* --check-cfg / --cfg flags.                                              *)
(***************************************************************************)
\* the flags of a RUSTFLAGS value, none when it is unset
FlagsOf(v) == IF v = Unset THEN {} ELSE Range(v.set)

C11_PreexistingKept ==
    (child # Absent /\ env_rustflags # Unset) =>
        /\ FlagsOf(env_rustflags) \subseteq FlagsOf(child.rustflags)
        /\ Range(rustflags) \subseteq FlagsOf(child.rustflags)

(***************************************************************************)
(* C12: a second invocation on unchanged inputs leaves config.rs and       *)
(* .cargo/config.toml exactly as the first invocation left them, whatever  *)
(* order the symbol table and the declared set are iterated in.            *)
(***************************************************************************)
C12_Idempotent ==
    (first_run # Absent /\ pc = "exited") =>
        /\ cargo_config = first_run.cargo_config
        /\ config_rs = first_run.config_rs

(***************************************************************************)
(* C13: when the workspace holds one or more conflicting specs,            *)
(* validate_features returns a single error, and that error names the      *)
(* declaring package, the capability, the full dependency spec, the target *)
(* package and the sub-capability of a conflict that is in the input: the  *)
(* spec is `target/sub`, declared under that CONFIG_ capability of that    *)
(* aware package, and the target is an aware workspace package.            *)
(***************************************************************************)
\* the inspected specs that are conflicts
ConflictingSpecs ==
    {t \in InspectedSpecs :
        \E j \in 1..Len(workspace) :
            Aware(workspace[j]) /\ IsSubSpec(SpecAt(t), workspace[j].name)}

C13_FaithfulReport ==
    ConflictReported =>
        \E t \in ConflictingSpecs :
            /\ result.err.crate = workspace[t[1]].name
            /\ result.err.feature = t[2]
            /\ result.err.dep = SpecAt(t)
            /\ result.err.dep = result.err.pkg_name \o <<"/">> \o result.err.sub_feature
            /\ \E j \in 1..Len(workspace) :
                   Aware(workspace[j]) /\ workspace[j].name = result.err.pkg_name

\* an error is reported for a workspace in which two packages each declare a
\* conflict
C13_Witness ==
    /\ ConflictReported
    /\ \E t, u \in ConflictingSpecs : t[1] # u[1]

(***************************************************************************)
(* C14: capabilities whose name lacks the CONFIG_ prefix are not           *)
(* inspected: replacing the dependency list of the non-CONFIG_             *)
(* capabilities of any package, also by a list holding `aware_pkg/sub`,    *)
(* leaves the result of validate_features as it is.                        *)
(***************************************************************************)
\* the lists put in place of the lists of the non-CONFIG_ capabilities
OtherLists == {<<>>, <<PkgA \o <<"/", "x">>>>, <<PkgB \o <<"/", "x">>, PkgA>>}

\* the workspace with the list of every non-CONFIG_ capability of package i
\* replaced by l
WithOtherLists(crates, i, l) ==
    [crates EXCEPT ![i].features =
        [f \in DOMAIN @ |-> IF HasPrefix(f) THEN @[f] ELSE l]]

C14_OtherNamesIgnored ==
    Validated =>
        \A i \in 1..Len(workspace) : \A l \in OtherLists :
            /\ pc = "parse" => validate_features(WithOtherLists(workspace, i, l)) = {Ok}
            /\ ConflictReported => result \in validate_features(WithOtherLists(workspace, i, l))

\* validation passed although a non-CONFIG_ capability of an aware package
\* lists `name/sub` with `name` an aware workspace package
C14_Witness ==
    /\ pc = "parse"
    /\ \E i, j \in 1..Len(workspace) :
          /\ Aware(workspace[i]) /\ Aware(workspace[j])
          /\ \E f \in DOMAIN workspace[i].features :
                /\ ~HasPrefix(f)
                /\ \E k \in 1..Len(workspace[i].features[f]) :
                      IsSubSpec(workspace[i].features[f][k], workspace[j].name)

(***************************************************************************)
(* C15: constant generation is total: whatever table parse_config          *)
(* returned, also one with a CONFIG_ key whose value is a single `"` or is *)
(* empty, generate_config_rs completes without aborting, and each such     *)
(* entry gives one constant or none.                                       *)
(***************************************************************************)
C15_Total ==
    /\ "panic" \notin DOMAIN result
    /\ Parsed => "ok" \in DOMAIN generate_config_rs(config.map, config.order)

(***************************************************************************)
(* Vocabulary of the properties about the members on disk.                 *)
(***************************************************************************)
\* the member manifests that can be read and parsed, in the order of the
\* members list
ReadableMembers == SelectSeq(fs_members, LAMBDA m : m.parsable)

\* the names of the members whose manifest is missing or does not parse
SkippedNames ==
    {fs_members[j].name : j \in {k \in 1..Len(fs_members) : ~fs_members[k].parsable}}

\* the workspace was read: the loaded packages are the readable members
WorkspaceRead ==
    /\ fs_root = "ok"
    /\ Len(workspace) = Len(ReadableMembers)
    /\ \A i \in 1..Len(workspace) :
          /\ workspace[i].name = ReadableMembers[i].name
          /\ workspace[i].has_kbuild = ReadableMembers[i].has_kbuild
          /\ workspace[i].features = ReadableMembers[i].features

\* the names declared by the --check-cfg lines of .cargo/config.toml
ConfigTomlNames ==
    {cargo_config.content[i].check_cfg : i \in 1..Len(cargo_config.content)}

(***************************************************************************)
(* C16: in a run of `build` the cargo process is spawned only after the    *)
(* workspace was read, validate_features returned Ok and the config file   *)
(* was parsed; when validation fails, config.rs is not written and no      *)
(* process is spawned, while .cargo/config.toml has been regenerated.      *)
(***************************************************************************)
C16_Ordering ==
    /\ child # Absent =>
          /\ WorkspaceRead
          /\ ~HasConflict
          /\ fs_config.readable /\ config # Absent
          /\ cargo_config # Absent /\ config_rs # Absent
    /\ ConflictReported =>
          /\ config = Absent /\ config_rs = Absent
          /\ child = Absent
          /\ cargo_config # Absent /\ ConfigTomlNames = DeclaredNames

\* the tool has exited on a validation error, with names declared in the
\* regenerated .cargo/config.toml
C16_Witness ==
    /\ pc = "exited"
    /\ ConflictReported
    /\ cargo_config # Absent /\ ConfigTomlNames # {}
    /\ config_rs = Absent /\ child = Absent

(***************************************************************************)
(* C17: reading the manifests is lenient: a member whose manifest is       *)
(* missing or does not parse is skipped without error and every other      *)
(* member is loaded; a `name/sub` spec that targets a skipped member does  *)
(* not fail validation, even when the skipped manifest carries the         *)
(* metadata flag.                                                          *)
(***************************************************************************)
\* the errors Workspace::new can return
WorkspaceErrors ==
    {Message("Failed to read workspace Cargo.toml"),
     Message("Failed to parse workspace Cargo.toml"),
     Message("No workspace members found"),
     Message("Invalid member path")}

\* every inspected `name/sub` spec that targets a member targets a skipped one
OnlySkippedTargets ==
    \A t \in InspectedSpecs : \A j \in 1..Len(fs_members) :
        IsSubSpec(SpecAt(t), fs_members[j].name) => ~fs_members[j].parsable

C17_Lenient ==
    /\ (fs_root = "ok" /\ pc # "workspace") =>
          /\ WorkspaceRead
          /\ "err" \in DOMAIN result => result.err \notin WorkspaceErrors
    /\ ConflictReported => result.err.pkg_name \notin SkippedNames
    /\ (Validated /\ OnlySkippedTargets) => pc = "parse"

\* validation passed with one member skipped, its manifest carrying the
\* metadata flag, and an inspected spec of the other member targeting it
C17_Witness ==
    /\ pc = "parse"
    /\ Len(workspace) = 1
    /\ \E j \in 1..Len(fs_members) :
          /\ ~fs_members[j].parsable
          /\ fs_members[j].has_kbuild
          /\ \E t \in InspectedSpecs : IsSubSpec(SpecAt(t), fs_members[j].name)

=============================================================================
